---- MODULE Spec2Model ----
(***************************************************************************)
(* A model of neostr-brainstorm: the graph entity library (lib/graph.go,   *)
(* lib/util.go), the schema constructors and the three-stage import        *)
(* pipeline ImportEvents -> ParseEvents -> MergeEntities.                  *)
(*                                                                         *)
(* Go strings are sequences of one-character strings, ordered by byte      *)
(* value, so that sort.Strings, strings.Join, strings.Split and            *)
(* fmt.Sprintf are computed character by character.                        *)
(***************************************************************************)
EXTENDS Integers, Sequences, FiniteSets, TLC

VARIABLES
    matchProvider,  \* the MatchKeysProvider in use: label -> key list
    node,           \* SpecNode: the Node under test [Labels, Props]
    ret,            \* the result of the last library call
    subgraph,       \* the StructuredSubgraph being filled
    okNodes,        \* SpecAcc: the nodes of the AddNode calls that returned
    okRels,         \* SpecAcc: the relationships of the AddRel calls that returned
    lines,          \* the lines of export.json
    i,              \* ImportEvents: the index of the line the loop is at
    spc,            \* ImportEvents: "loop", "send", "close", "wait", "done"
    event,          \* ImportEvents: the variable event
    logged,         \* ImportEvents: the line numbers logged as "Invalid event"
    eventsClosed,   \* the channel events is closed
    tpc,            \* ParseEvents: "recv", "send", "close", "wait", "done"
    tsub,           \* ParseEvents: the Subgraph built from the event received
    sgClosed,       \* the channel subgraphChannel is closed
    mpc,            \* MergeEntities: "connect", "recv", "nodes", "rels",
                    \* "check", "flushNodes", "flushRels", "done"
    sg,             \* MergeEntities: the Subgraph received
    pos,            \* MergeEntities: the index into sg.nodes or sg.rels
    todo,           \* mergeSubgraph: the keys the running loop has yet to visit
    final,          \* mergeSubgraph was called after the range loop
    flushes,        \* the mergeSubgraph calls: [final, nodeCount, relCount]
    storeLog,       \* the bulk operations the store has executed
    store,          \* the graph the store holds: its nodes and its edges
    fatal,          \* "none", or the panic that has ended the process
    forwarded,      \* the line numbers of the records sent on events
    handed,         \* the Subgraphs received by MergeEntities
    merged          \* the number of Subgraphs merged completely

accVars == <<okNodes, okRels>>
srcVars == <<i, spc, event, logged, eventsClosed, forwarded>>
trVars == <<tpc, tsub, sgClosed>>
mrgVars == <<mpc, sg, pos, todo, final, flushes, storeLog, store, handed,
             merged>>
pipeVars == <<lines, srcVars, trVars, mrgVars, fatal>>
vars == <<matchProvider, node, ret, subgraph, accVars, pipeVars>>

-----------------------------------------------------------------------------
(* Strings *)

\* Byte values of the characters the model's strings are made of.
Ord ==
    [c \in {",", ":", "A", "B", "E", "N", "R", "T", "U",
            "a", "e", "g", "l", "n", "o", "r", "s", "t", "v", "y"} |->
        CASE c = "," -> 44 [] c = ":" -> 58
          [] c = "A" -> 65 [] c = "B" -> 66 [] c = "E" -> 69
          [] c = "N" -> 78 [] c = "R" -> 82 [] c = "T" -> 84
          [] c = "U" -> 85 [] c = "a" -> 97 [] c = "e" -> 101
          [] c = "g" -> 103 [] c = "l" -> 108 [] c = "n" -> 110
          [] c = "o" -> 111 [] c = "r" -> 114 [] c = "s" -> 115
          [] c = "t" -> 116 [] c = "v" -> 118 [] c = "y" -> 121]

\* Go's string comparison a < b: bytewise lexicographic.
RECURSIVE StrLess(_, _)
StrLess(a, b) ==
    IF a = <<>> THEN b # <<>>
    ELSE IF b = <<>> THEN FALSE
    ELSE IF Ord[Head(a)] # Ord[Head(b)] THEN Ord[Head(a)] < Ord[Head(b)]
    ELSE StrLess(Tail(a), Tail(b))

\* One insertion step of the sort: x placed before the first greater element.
RECURSIVE SortInsert(_, _)
SortInsert(x, sorted) ==
    IF sorted = <<>> THEN <<x>>
    ELSE IF StrLess(x, Head(sorted)) THEN <<x>> \o sorted
    ELSE <<Head(sorted)>> \o SortInsert(x, Tail(sorted))

\* A sort that leaves the order as it is.
SortStringsNoop(strs) == strs

\* sort.Strings: the strings in increasing order.
RECURSIVE SortStrings(_)
SortStrings(strs) ==
    IF strs = <<>> THEN <<>>
    ELSE SortInsert(Head(strs), SortStrings(Tail(strs)))

\* strings.Join(strs, sep)
RECURSIVE Join(_, _)
Join(strs, sep) ==
    IF strs = <<>> THEN <<>>
    ELSE IF Len(strs) = 1 THEN strs[1]
    ELSE strs[1] \o sep \o Join(Tail(strs), sep)

\* strings.Split(str, sep) for a one-character separator: the substrings
\* between the separators; a string without separator is returned whole
\* (also the empty string, as one empty substring).
RECURSIVE Split(_, _)
Split(str, sep) ==
    IF \A k \in 1..Len(str) : str[k] # sep THEN <<str>>
    ELSE LET k == CHOOSE j \in 1..Len(str) :
                      /\ str[j] = sep
                      /\ \A h \in 1..(j - 1) : str[h] # sep
         IN  <<SubSeq(str, 1, k - 1)>> \o Split(SubSeq(str, k + 1, Len(str)), sep)

\* The orders in which ranging over a Go map can yield the elements of S.
Perms(S) ==
    {p \in [1..Cardinality(S) -> S] : \A x \in S : \E k \in DOMAIN p : p[k] = x}

Range(f) == {f[k] : k \in DOMAIN f}

Min(S) == CHOOSE x \in S : \A y \in S : x <= y

-----------------------------------------------------------------------------
(* Labels and the schema registry *)

User  == <<"U", "s", "e", "r">>
Relay == <<"R", "e", "l", "a", "y">>
Event == <<"E", "v", "e", "n", "t">>
Tag   == <<"T", "a", "g">>
\* Labels without a registry entry; two of them hold a key delimiter.
Note  == <<"N", "o", "t", "e">>
AcB   == <<"A", ",", "B">>
AdB   == <<"A", ":", "B">>

\* NewMatchKeys: the schema's registry.
NewMatchKeys ==
    (User :> <<"pubkey">>) @@ (Relay :> <<"url">>) @@
    (Event :> <<"id">>) @@ (Tag :> <<"name", "value">>)

\* Another MatchKeysProvider: only Tag is registered.
TagOnlyKeys == (Tag :> <<"name", "value">>)

\* MatchKeys.GetKeys
GetKeys(p, label) ==
    IF label \in DOMAIN p THEN [keys |-> p[label], exists |-> TRUE]
    ELSE [keys |-> <<>>, exists |-> FALSE]

-----------------------------------------------------------------------------
(* Nodes *)

\* A nil Properties map.
NilProps == [nil |-> TRUE]

\* Set.ToArray: the elements in map iteration order, which Go leaves open.
ToArray(set) == Perms(set)

\* NewNode
NewNode(label, props) ==
    [Labels |-> {label}, Props |-> IF props = NilProps THEN <<>> ELSE props]

\* A scan that goes on to the next label when a match property is missing.
RECURSIVE MatchScanFallThrough(_, _, _, _)
MatchScanFallThrough(n, labels, k, p) ==
    IF k > Len(labels)
    THEN [label |-> <<>>, props |-> NilProps, err |-> "NoRecognizedLabel",
          key |-> ""]
    ELSE LET label == labels[k]
             got == GetKeys(p, label)
         IN  IF got.exists /\ Range(got.keys) \subseteq DOMAIN n.Props
             THEN [label |-> label,
                   props |-> [key \in Range(got.keys) |-> n.Props[key]],
                   err |-> "nil", key |-> ""]
             ELSE MatchScanFallThrough(n, labels, k + 1, p)

\* The scan of MatchProps over the labels from position k on.
RECURSIVE MatchScan(_, _, _, _)
MatchScan(n, labels, k, p) ==
    IF k > Len(labels)
    THEN [label |-> <<>>, props |-> NilProps, err |-> "NoRecognizedLabel",
          key |-> ""]
    ELSE LET label == labels[k]
             got == GetKeys(p, label)
             missing == {j \in 1..Len(got.keys) : got.keys[j] \notin DOMAIN n.Props}
         IN  IF got.exists
             THEN IF missing # {}
                  THEN [label |-> label, props |-> NilProps,
                        err |-> "MissingMatchProperty",
                        key |-> got.keys[Min(missing)]]
                  ELSE [label |-> label,
                        props |-> [key \in Range(got.keys) |-> n.Props[key]],
                        err |-> "nil", key |-> ""]
             ELSE MatchScan(n, labels, k + 1, p)

\* MatchProps without the sort of the label array.
MatchPropsUnsorted(n, arr, p) == MatchScan(n, arr, 1, p)

\* Node.MatchProps, with arr the array n.Labels.ToArray() returned.
MatchProps(n, arr, p) == MatchScan(n, SortStrings(arr), 1, p)

-----------------------------------------------------------------------------
(* Sort keys *)

\* createNodeSortKey that joins the labels in the order of the array.
createNodeSortKeyUnsorted(matchLabel, labels) ==
    matchLabel \o <<":">> \o Join(labels, <<",">>)

\* createNodeSortKey, with labels the array node.Labels.ToArray() returned.
createNodeSortKey(matchLabel, labels) ==
    matchLabel \o <<":">> \o Join(SortStrings(labels), <<",">>)

\* createRelSortKey
createRelSortKey(rtype, startLabel, endLabel) ==
    Join(<<rtype, startLabel, endLabel>>, <<",">>)

\* DeserializeNodeKey that returns the serialized labels as one label.
DeserializeNodeKeyNoSplit(sortKey) ==
    LET parts == Split(sortKey, ":")
    IN  IF Len(parts) # 2 THEN [panic |-> TRUE]
        ELSE [panic |-> FALSE, matchLabel |-> parts[1], labels |-> <<parts[2]>>]

\* DeserializeNodeKey
DeserializeNodeKey(sortKey) ==
    LET parts == Split(sortKey, ":")
    IN  IF Len(parts) # 2 THEN [panic |-> TRUE]
        ELSE [panic |-> FALSE, matchLabel |-> parts[1],
              labels |-> Split(parts[2], ",")]

\* DeserializeRelKey that takes the parts as start label, end label, type.
DeserializeRelKeyShifted(sortKey) ==
    LET parts == Split(sortKey, ",")
    IN  IF Len(parts) # 3 THEN [panic |-> TRUE]
        ELSE [panic |-> FALSE, rtype |-> parts[3], startLabel |-> parts[1],
              endLabel |-> parts[2]]

\* DeserializeRelKey
DeserializeRelKey(sortKey) ==
    LET parts == Split(sortKey, ",")
    IN  IF Len(parts) # 3 THEN [panic |-> TRUE]
        ELSE [panic |-> FALSE, rtype |-> parts[1], startLabel |-> parts[2],
              endLabel |-> parts[3]]

-----------------------------------------------------------------------------
(* Relationships and the schema constructors *)

SIGNED     == <<"S", "I", "G", "N", "E", "D">>
TAGGED     == <<"T", "A", "G", "G", "E", "D">>
REFERENCES == <<"R", "E", "F", "E", "R", "E", "N", "C", "E", "S">>

NewUserNode(pubkey) == NewNode(User, [pubkey |-> pubkey])

NewRelayNode(url) == NewNode(Relay, [url |-> url])

NewEventNode(id) == NewNode(Event, [id |-> id])

NewTagNode(name, value, rest) ==
    NewNode(Tag, [name |-> name, value |-> value, rest |-> rest])

\* NewRelationship
NewRelationship(rtype, start, end, props) ==
    [Type |-> rtype, Start |-> start, End |-> end,
     Props |-> IF props = NilProps THEN <<>> ELSE props]

\* validateNodeLabel: TRUE when it returns, FALSE when it panics.
validateNodeLabel(n, role, expectedLabel) == expectedLabel \in n.Labels

NoRel == [Type |-> <<>>]

\* A constructor that validates the start node only.
NewRelationshipStartValidated(rtype, startLabel, endLabel, start, end, props) ==
    IF ~validateNodeLabel(start, "start", startLabel)
    THEN [panic |-> TRUE, err |-> "EndpointLabelMismatch", role |-> "start",
          rel |-> NoRel]
    ELSE [panic |-> FALSE, err |-> "nil", role |-> "",
          rel |-> NewRelationship(rtype, start, end, props)]

\* NewRelationshipWithValidation: the relationship, or the panic of the
\* first endpoint whose label set lacks the declared label.
NewRelationshipWithValidation(rtype, startLabel, endLabel, start, end, props) ==
    IF ~validateNodeLabel(start, "start", startLabel)
    THEN [panic |-> TRUE, err |-> "EndpointLabelMismatch", role |-> "start",
          rel |-> NoRel]
    ELSE IF ~validateNodeLabel(end, "end", endLabel)
    THEN [panic |-> TRUE, err |-> "EndpointLabelMismatch", role |-> "end",
          rel |-> NoRel]
    ELSE [panic |-> FALSE, err |-> "nil", role |-> "",
          rel |-> NewRelationship(rtype, start, end, props)]

NewSignedRel(start, end, props) ==
    NewRelationshipWithValidation(SIGNED, User, Event, start, end, props)

NewTaggedRel(start, end, props) ==
    NewRelationshipWithValidation(TAGGED, Event, Tag, start, end, props)

NewReferencesEventRel(start, end, props) ==
    NewRelationshipWithValidation(REFERENCES, Event, Event, start, end, props)

NewReferencesUserRel(start, end, props) ==
    NewRelationshipWithValidation(REFERENCES, Event, User, start, end, props)

\* The schema's relationship constructors with the labels they declare.
Constructors ==
    {[rtype |-> SIGNED, startLabel |-> User, endLabel |-> Event],
     [rtype |-> TAGGED, startLabel |-> Event, endLabel |-> Tag],
     [rtype |-> REFERENCES, startLabel |-> Event, endLabel |-> Event],
     [rtype |-> REFERENCES, startLabel |-> Event, endLabel |-> User]}

\* The call of the constructor c.
Construct(c, start, end, props) ==
    CASE c.rtype = SIGNED -> NewSignedRel(start, end, props)
      [] c.rtype = TAGGED -> NewTaggedRel(start, end, props)
      [] c.rtype = REFERENCES /\ c.endLabel = Event ->
             NewReferencesEventRel(start, end, props)
      [] c.rtype = REFERENCES /\ c.endLabel = User ->
             NewReferencesUserRel(start, end, props)

-----------------------------------------------------------------------------
(* Structured subgraph *)

\* NewStructuredSubgraph
NewStructuredSubgraph(p) == [nodes |-> <<>>, rels |-> <<>>, matchProvider |-> p]

\* The bucket map with an empty bucket made for a key it lacks.
WithBucket(buckets, sortKey) ==
    IF sortKey \in DOMAIN buckets THEN buckets ELSE buckets @@ (sortKey :> <<>>)

\* AddNode that replaces the bucket's content by the node.
AddNodeOverwrite(s, n, arrMatch, arrKey) ==
    LET mp == MatchProps(n, arrMatch, s.matchProvider)
    IN  IF mp.err # "nil"
        THEN [panic |-> TRUE, err |-> "invalid node", cause |-> mp.err, s |-> s]
        ELSE LET sortKey == createNodeSortKey(mp.label, arrKey)
             IN  [panic |-> FALSE, err |-> "nil", cause |-> "nil",
                  s |-> [s EXCEPT !.nodes =
                            [WithBucket(s.nodes, sortKey) EXCEPT ![sortKey] = <<n>>]]]

\* StructuredSubgraph.AddNode; arrMatch and arrKey are the arrays the two
\* calls of n.Labels.ToArray() returned. A panic leaves s as it was.
AddNode(s, n, arrMatch, arrKey) ==
    LET mp == MatchProps(n, arrMatch, s.matchProvider)
    IN  IF mp.err # "nil"
        THEN [panic |-> TRUE, err |-> "invalid node", cause |-> mp.err, s |-> s]
        ELSE LET sortKey == createNodeSortKey(mp.label, arrKey)
             IN  [panic |-> FALSE, err |-> "nil", cause |-> "nil",
                  s |-> [s EXCEPT !.nodes =
                            [WithBucket(s.nodes, sortKey) EXCEPT
                                ![sortKey] = Append(@, n)]]]

\* AddRel that does not look at the error of the end node's MatchProps.
AddRelEndUnchecked(s, r, arrStart, arrEnd) ==
    LET mpStart == MatchProps(r.Start, arrStart, s.matchProvider)
        mpEnd == MatchProps(r.End, arrEnd, s.matchProvider)
    IN  IF mpStart.err # "nil"
        THEN [panic |-> TRUE, err |-> "invalid start node", cause |-> mpStart.err,
              s |-> s]
        ELSE LET sortKey == createRelSortKey(r.Type, mpStart.label, mpEnd.label)
             IN  [panic |-> FALSE, err |-> "nil", cause |-> "nil",
                  s |-> [s EXCEPT !.rels =
                            [WithBucket(s.rels, sortKey) EXCEPT
                                ![sortKey] = Append(@, r)]]]

\* StructuredSubgraph.AddRel; arrStart and arrEnd are the arrays ToArray
\* returned for the labels of the start and of the end node.
AddRel(s, r, arrStart, arrEnd) ==
    LET mpStart == MatchProps(r.Start, arrStart, s.matchProvider)
        mpEnd == MatchProps(r.End, arrEnd, s.matchProvider)
    IN  IF mpStart.err # "nil"
        THEN [panic |-> TRUE, err |-> "invalid start node", cause |-> mpStart.err,
              s |-> s]
        ELSE IF mpEnd.err # "nil"
        THEN [panic |-> TRUE, err |-> "invalid end node", cause |-> mpEnd.err,
              s |-> s]
        ELSE LET sortKey == createRelSortKey(r.Type, mpStart.label, mpEnd.label)
             IN  [panic |-> FALSE, err |-> "nil", cause |-> "nil",
                  s |-> [s EXCEPT !.rels =
                            [WithBucket(s.rels, sortKey) EXCEPT
                                ![sortKey] = Append(@, r)]]]

\* GetNodes and GetRels
GetNodes(s, nodeKey) == s.nodes[nodeKey]

GetRels(s, relKey) == s.rels[relKey]

\* The sum of the bucket lengths over the keys.
RECURSIVE BucketSum(_, _)
BucketSum(buckets, keys) ==
    IF keys = {} THEN 0
    ELSE LET k == CHOOSE x \in keys : TRUE
         IN  Len(buckets[k]) + BucketSum(buckets, keys \ {k})

\* NodeCount and RelCount
NodeCount(s) == BucketSum(s.nodes, DOMAIN s.nodes)

RelCount(s) == BucketSum(s.rels, DOMAIN s.rels)

\* RelKeys that returns every key twice.
RelKeysTwice(s) == {ks \o ks : ks \in Perms(DOMAIN s.rels)}

\* NodeKeys that returns every key twice.
NodeKeysTwice(s) == {ks \o ks : ks \in Perms(DOMAIN s.nodes)}

\* NodeKeys and RelKeys: the keys in map iteration order.
NodeKeys(s) == Perms(DOMAIN s.nodes)

RelKeys(s) == Perms(DOMAIN s.rels)

-----------------------------------------------------------------------------
(* SpecNode: one node, built by NewNode and Labels.Add, and calls of       *)
(* MatchProps on it.                                                       *)

MaxLabels == 2

LabelUniverse == {User, Relay, Event, Tag, Note, AcB, AdB}

PropsUniverse ==
    {NilProps,
     [pubkey |-> "pk1"],
     [id |-> "ev1", kind |-> "1"],
     [name |-> "e"],
     [name |-> "e", value |-> "ev0"],
     [id |-> "ev1", name |-> "e", value |-> "ev0"]}

Providers == {NewMatchKeys, TagOnlyKeys}

NoRet == [op |-> "none"]

\* A Subgraph made by NewSubgraph.
NewSubgraph == [nodes |-> <<>>, rels |-> <<>>]

\* The zero value of nostr.Event.
ZeroEvent ==
    [ID |-> "", PubKey |-> "", CreatedAt |-> 0, Kind |-> 0, Content |-> "",
     Tags |-> <<>>]

\* The store before anything is written to it: no node, no edge.
EmptyStore == [nodes |-> <<>>, edges |-> <<>>]

\* The pipeline's variables before ImportEvents is called.
PipeIdle ==
    /\ lines = <<>>
    /\ i = 0
    /\ spc = "idle"
    /\ event = ZeroEvent
    /\ logged = <<>>
    /\ eventsClosed = FALSE
    /\ tpc = "idle"
    /\ tsub = NewSubgraph
    /\ sgClosed = FALSE
    /\ mpc = "idle"
    /\ sg = NewSubgraph
    /\ pos = 1
    /\ todo = <<>>
    /\ final = FALSE
    /\ flushes = <<>>
    /\ storeLog = <<>>
    /\ store = EmptyStore
    /\ fatal = "none"
    /\ forwarded = <<>>
    /\ handed = <<>>
    /\ merged = 0

NoNode == [Labels |-> {}, Props |-> <<>>]

\* The variables of SpecAcc while it is not running.
AccIdle ==
    /\ subgraph = NewStructuredSubgraph(matchProvider)
    /\ okNodes = <<>>
    /\ okRels = <<>>

InitNode ==
    /\ matchProvider \in Providers
    /\ \E label \in LabelUniverse, props \in PropsUniverse :
           node = NewNode(label, props)
    /\ ret = NoRet
    /\ AccIdle
    /\ PipeIdle

\* node.Labels.Add(label)
LabelsAdd ==
    \E label \in LabelUniverse :
        /\ Cardinality(node.Labels \cup {label}) <= MaxLabels
        /\ node' = [node EXCEPT !.Labels = @ \cup {label}]
        /\ UNCHANGED <<matchProvider, ret, subgraph, accVars, pipeVars>>

\* node.MatchProps(matchProvider)
CallMatchProps ==
    \E arr \in ToArray(node.Labels) :
        /\ ret' = [op |-> "MatchProps", n |-> node, arr |-> arr,
                   res |-> MatchProps(node, arr, matchProvider)]
        /\ UNCHANGED <<matchProvider, node, subgraph, accVars, pipeVars>>

\* createNodeSortKey for the node's labels and one of them as match label,
\* then DeserializeNodeKey of the key.
CallNodeKeyRoundTrip ==
    \E arr \in ToArray(node.Labels), matchLabel \in node.Labels :
        /\ ret' = [op |-> "NodeKey", n |-> node, arr |-> arr,
                   matchLabel |-> matchLabel,
                   res |-> MatchProps(node, arr, matchProvider),
                   key |-> createNodeSortKey(matchLabel, arr),
                   back |-> DeserializeNodeKey(createNodeSortKey(matchLabel, arr))]
        /\ UNCHANGED <<matchProvider, node, subgraph, accVars, pipeVars>>

NextNode == LabelsAdd \/ CallMatchProps \/ CallNodeKeyRoundTrip

SpecNode == InitNode /\ [][NextNode]_vars

-----------------------------------------------------------------------------
(* SpecAcc: relationships built by the schema constructors, and AddNode    *)
(* and AddRel calls on one StructuredSubgraph. A call that panics is       *)
(* recovered by the caller, who goes on with the subgraph as it is.        *)

MaxNodeAdds == 2
MaxRelAdds == 2

\* The nodes the calls are made with: the schema constructors' nodes, an
\* Event that was given the label Tag too, a User without pubkey, and a
\* node whose label has no registry entry.
AccNodes ==
    {NewUserNode("pk1"), NewEventNode("ev1"), NewTagNode("e", "ev0", <<>>),
     [NewEventNode("ev2") EXCEPT !.Labels = @ \cup {Tag}],
     NewNode(User, NilProps), NewNode(Note, NilProps)}

\* The nodes AddNode is called with: those, and a Tag that was given the
\* label "A,B" too.
AddedNodes ==
    AccNodes \cup {[NewTagNode("p", "pk2", <<>>) EXCEPT !.Labels = @ \cup {AcB}]}

InitAcc ==
    /\ matchProvider = NewMatchKeys
    /\ node = NoNode
    /\ ret = NoRet
    /\ AccIdle
    /\ PipeIdle

\* One of the schema's relationship constructors is called.
CallNewRel ==
    \E c \in Constructors, start \in AccNodes, end \in AccNodes :
        LET res == Construct(c, start, end, NilProps)
        IN  /\ ret' = [op |-> "NewRel", decl |-> c, start |-> start, end |-> end,
                       panic |-> res.panic, err |-> res.err, role |-> res.role,
                       rel |-> res.rel]
            /\ UNCHANGED <<matchProvider, node, subgraph, okNodes, okRels, pipeVars>>

\* subgraph.AddNode(n)
CallAddNode ==
    \E n \in AddedNodes :
    \E arrMatch \in ToArray(n.Labels), arrKey \in ToArray(n.Labels) :
        LET res == AddNode(subgraph, n, arrMatch, arrKey)
        IN  /\ Len(okNodes) < MaxNodeAdds
            /\ ret' = [op |-> "AddNode", n |-> n, panic |-> res.panic,
                       err |-> res.err, cause |-> res.cause]
            /\ subgraph' = res.s
            /\ okNodes' = IF res.panic THEN okNodes ELSE Append(okNodes, n)
            /\ UNCHANGED <<matchProvider, node, okRels, pipeVars>>

\* The relationships AddRel is called with, each made by its constructor:
\* the pipeline's SIGNED and TAGGED, a TAGGED whose end node is matched as
\* Event, both REFERENCES, and a SIGNED whose start node lacks its pubkey.
AccRels ==
    LET u == NewUserNode("pk1")
        e == NewEventNode("ev1")
        t == NewTagNode("e", "ev0", <<>>)
        et == [NewEventNode("ev2") EXCEPT !.Labels = @ \cup {Tag}]
    IN  {NewSignedRel(u, e, NilProps).rel,
         NewTaggedRel(e, t, NilProps).rel,
         NewTaggedRel(e, et, NilProps).rel,
         NewReferencesEventRel(et, e, NilProps).rel,
         NewReferencesUserRel(e, u, NilProps).rel,
         NewSignedRel(NewNode(User, NilProps), e, NilProps).rel,
         NewReferencesUserRel(e, NewNode(User, NilProps), NilProps).rel}

\* subgraph.AddRel(r)
CallAddRel ==
    \E r \in AccRels :
    \E arrStart \in ToArray(r.Start.Labels), arrEnd \in ToArray(r.End.Labels) :
        LET res == AddRel(subgraph, r, arrStart, arrEnd)
        IN  /\ Len(okRels) < MaxRelAdds
            /\ ret' = [op |-> "AddRel", r |-> r, panic |-> res.panic,
                       err |-> res.err, cause |-> res.cause]
            /\ subgraph' = res.s
            /\ okRels' = IF res.panic THEN okRels ELSE Append(okRels, r)
            /\ UNCHANGED <<matchProvider, node, okNodes, pipeVars>>

NextAcc == CallAddNode \/ CallAddRel

SpecAcc == InitAcc /\ [][NextAcc]_vars

\* SpecRel: calls of the schema's relationship constructors, between
\* AddNode calls on a structured subgraph.
NextRel == CallNewRel \/ CallAddNode

SpecRel == InitAcc /\ [][NextRel]_vars

-----------------------------------------------------------------------------
(* Spec: the import pipeline. ImportEvents decodes the lines of the input  *)
(* and sends the events to ParseEvents, which builds a Subgraph of each    *)
(* and sends it to MergeEntities, which merges it into the structured      *)
(* subgraph and writes that to the store. Both channels are unbuffered: a  *)
(* send and its receive are one step.                                      *)

\* The line cap of ImportEvents (10000 in the source) and the batchSize of
\* MergeEntities (25000 in the source), scaled down.
LineCap == 1
batchSize == 2

\* The longest input.
MaxLines == 3

\* The events the input's well-formed lines decode to: one without tags,
\* one with a tag of two elements and a tag of one.
InputEvents ==
    {[ID |-> "ev1", PubKey |-> "pk1", CreatedAt |-> 1, Kind |-> 1,
      Content |-> "c", Tags |-> <<>>],
     [ID |-> "ev2", PubKey |-> "pk2", CreatedAt |-> 2, Kind |-> 1,
      Content |-> "c", Tags |-> <<<<"e", "ev0">>, <<"p">>>>]}

\* The lines of the input: blank after trimming, not decodable, or the
\* encoding of an event.
InputLines ==
    {[kind |-> "blank"], [kind |-> "malformed"]}
        \cup {[kind |-> "event", ev |-> e] : e \in InputEvents}

\* event = nostr.Event{}; err = json.Unmarshal(line, &event): a line that
\* does not decode leaves event at its zero value.
Unmarshal(line) ==
    IF line.kind = "event" THEN [event |-> line.ev, err |-> FALSE]
    ELSE [event |-> ZeroEvent, err |-> TRUE]

\* Subgraph.AddNode and Subgraph.AddRel
SubgraphAddNode(sub, n) == [sub EXCEPT !.nodes = Append(@, n)]

SubgraphAddRel(sub, r) == [sub EXCEPT !.rels = Append(@, r)]

\* The loop of ParseEvents over the tags from position j on; a failing
\* constructor panics.
RECURSIVE AddTags(_, _, _, _)
AddTags(sub, eventNode, tags, j) ==
    IF j > Len(tags) THEN [panic |-> FALSE, sub |-> sub]
    ELSE IF Len(tags[j]) >= 2
    THEN LET tagNode == NewTagNode(tags[j][1], tags[j][2], <<>>)
             tagRel == NewTaggedRel(eventNode, tagNode, NilProps)
         IN  IF tagRel.panic THEN [panic |-> TRUE, sub |-> sub]
             ELSE AddTags(SubgraphAddRel(SubgraphAddNode(sub, tagNode), tagRel.rel),
                          eventNode, tags, j + 1)
    ELSE AddTags(sub, eventNode, tags, j + 1)

\* A loop body that leaves the tags of the event aside.
BuildSubgraphNoTags(ev) ==
    LET userNode == NewUserNode(ev.PubKey)
        eventNode == [NewEventNode(ev.ID) EXCEPT !.Props =
                         @ @@ [created_at |-> ev.CreatedAt, kind |-> ev.Kind,
                               content |-> ev.Content]]
        authorRel == NewSignedRel(userNode, eventNode, NilProps)
    IN  IF authorRel.panic THEN [panic |-> TRUE, sub |-> NewSubgraph]
        ELSE [panic |-> FALSE,
              sub |-> SubgraphAddRel(
                          SubgraphAddNode(SubgraphAddNode(NewSubgraph, userNode),
                                          eventNode),
                          authorRel.rel)]

\* The body of the loop of ParseEvents: the Subgraph of one event. The call
\* NewTagNode(name, value) of the source passes no rest.
BuildSubgraph(ev) ==
    LET userNode == NewUserNode(ev.PubKey)
        eventNode == [NewEventNode(ev.ID) EXCEPT !.Props =
                         @ @@ [created_at |-> ev.CreatedAt, kind |-> ev.Kind,
                               content |-> ev.Content]]
        authorRel == NewSignedRel(userNode, eventNode, NilProps)
    IN  IF authorRel.panic THEN [panic |-> TRUE, sub |-> NewSubgraph]
        ELSE AddTags(SubgraphAddRel(
                         SubgraphAddNode(SubgraphAddNode(NewSubgraph, userNode),
                                         eventNode),
                         authorRel.rel),
                     eventNode, ev.Tags, 1)

Running == fatal = "none"

Init ==
    /\ matchProvider = NewMatchKeys
    /\ node = NoNode
    /\ ret = NoRet
    /\ AccIdle
    /\ \E n \in 1..MaxLines : lines \in [1..n -> InputLines]
    /\ i = 0
    /\ spc = "loop"
    /\ event = ZeroEvent
    /\ logged = <<>>
    /\ eventsClosed = FALSE
    /\ tpc = "recv"
    /\ tsub = NewSubgraph
    /\ sgClosed = FALSE
    /\ mpc = "connect"
    /\ sg = NewSubgraph
    /\ pos = 1
    /\ todo = <<>>
    /\ final = FALSE
    /\ flushes = <<>>
    /\ storeLog = <<>>
    /\ store = EmptyStore
    /\ fatal = "none"
    /\ forwarded = <<>>
    /\ handed = <<>>
    /\ merged = 0

libVars == <<matchProvider, node, ret, accVars>>

(* ImportEvents *)

\* The range is over: i has passed the last line.
RangeOver == i >= Len(lines)

\* if i > 10000 { break }
PastCap == i > LineCap

\* One pass of the loop up to the send: the loop ends, or a blank line is
\* skipped, or the line is decoded (and logged if that fails) and the event
\* is ready to be sent.
SourceLoop ==
    /\ Running
    /\ spc = "loop"
    /\ IF RangeOver \/ PastCap
       THEN /\ spc' = "close"
            /\ UNCHANGED <<i, event, logged>>
       ELSE IF lines[i + 1].kind = "blank"
       THEN /\ i' = i + 1
            /\ UNCHANGED <<spc, event, logged>>
       ELSE /\ event' = Unmarshal(lines[i + 1]).event
            /\ logged' = IF Unmarshal(lines[i + 1]).err
                         THEN Append(logged, i + 1) ELSE logged
            /\ spc' = "send"
            /\ UNCHANGED i
    /\ UNCHANGED <<eventsClosed, forwarded, trVars, mrgVars, fatal, lines,
                   subgraph, libVars>>

\* A send on events that completes although ParseEvents is not at its
\* receive, as on a buffered channel.
HandOffEventNoWait ==
    /\ Running
    /\ spc = "send"
    /\ tpc \in {"recv", "send"}
    /\ forwarded' = Append(forwarded, i + 1)
    /\ i' = i + 1
    /\ spc' = "loop"
    /\ LET built == BuildSubgraph(event)
       IN  IF built.panic
           THEN /\ fatal' = "EndpointLabelMismatch"
                /\ UNCHANGED <<tpc, tsub>>
           ELSE /\ tsub' = built.sub
                /\ tpc' = "send"
                /\ UNCHANGED fatal
    /\ UNCHANGED <<event, logged, eventsClosed, sgClosed, mrgVars, lines,
                   subgraph, libVars>>

\* events <- event, received by the range of ParseEvents, which builds the
\* Subgraph of the event.
HandOffEvent ==
    /\ Running
    /\ spc = "send"
    /\ tpc = "recv"
    /\ forwarded' = Append(forwarded, i + 1)
    /\ i' = i + 1
    /\ spc' = "loop"
    /\ LET built == BuildSubgraph(event)
       IN  IF built.panic
           THEN /\ fatal' = "EndpointLabelMismatch"
                /\ UNCHANGED <<tpc, tsub>>
           ELSE /\ tsub' = built.sub
                /\ tpc' = "send"
                /\ UNCHANGED fatal
    /\ UNCHANGED <<event, logged, eventsClosed, sgClosed, mrgVars, lines,
                   subgraph, libVars>>

\* close(events)
SourceClose ==
    /\ Running
    /\ spc = "close"
    /\ eventsClosed' = TRUE
    /\ spc' = "wait"
    /\ UNCHANGED <<i, event, logged, forwarded, trVars, mrgVars, fatal, lines,
                   subgraph, libVars>>

\* wg.Wait() of ImportEvents returns when ParseEvents has returned.
SourceJoin ==
    /\ Running
    /\ spc = "wait"
    /\ tpc = "done"
    /\ spc' = "done"
    /\ UNCHANGED <<i, event, logged, eventsClosed, forwarded, trVars, mrgVars,
                   fatal, lines, subgraph, libVars>>

(* ParseEvents *)

\* A loop over events that ends although the channel is still open.
TransformRangeEndEarly ==
    /\ Running
    /\ tpc = "recv"
    /\ tpc' = "close"
    /\ UNCHANGED <<tsub, sgClosed, srcVars, mrgVars, fatal, lines, subgraph,
                   libVars>>

\* The range over events ends: the channel is closed.
TransformRangeEnd ==
    /\ Running
    /\ tpc = "recv"
    /\ eventsClosed
    /\ tpc' = "close"
    /\ UNCHANGED <<tsub, sgClosed, srcVars, mrgVars, fatal, lines, subgraph,
                   libVars>>

\* A ParseEvents that goes on to wg.Wait() without closing subgraphChannel.
TransformNoClose ==
    /\ Running
    /\ tpc = "close"
    /\ tpc' = "wait"
    /\ UNCHANGED <<tsub, sgClosed, srcVars, mrgVars, fatal, lines, subgraph,
                   libVars>>

\* close(subgraphChannel)
TransformClose ==
    /\ Running
    /\ tpc = "close"
    /\ sgClosed' = TRUE
    /\ tpc' = "wait"
    /\ UNCHANGED <<tsub, srcVars, mrgVars, fatal, lines, subgraph, libVars>>

\* wg.Wait() of ParseEvents returns when MergeEntities has returned.
TransformJoin ==
    /\ Running
    /\ tpc = "wait"
    /\ mpc = "done"
    /\ tpc' = "done"
    /\ UNCHANGED <<tsub, sgClosed, srcVars, mrgVars, fatal, lines, subgraph,
                   libVars>>

\* subgraphChannel <- subgraph, received by the range of MergeEntities.
HandOffSubgraph ==
    /\ Running
    /\ tpc = "send"
    /\ mpc = "recv"
    /\ sg' = tsub
    /\ handed' = Append(handed, tsub)
    /\ pos' = 1
    /\ mpc' = "nodes"
    /\ tpc' = "recv"
    /\ UNCHANGED <<tsub, sgClosed, todo, final, flushes, storeLog, store, merged,
                   srcVars, fatal, lines, subgraph, libVars>>

(* MergeEntities *)

\* connectNeo4j returns the driver, or fails and MergeEntities panics; then
\* the structured subgraph is made.
MergeConnect ==
    /\ Running
    /\ mpc = "connect"
    /\ \E ok \in BOOLEAN :
           IF ok
           THEN /\ subgraph' = NewStructuredSubgraph(matchProvider)
                /\ mpc' = "recv"
                /\ UNCHANGED fatal
           ELSE /\ fatal' = "connect"
                /\ UNCHANGED <<subgraph, mpc>>
    /\ UNCHANGED <<sg, pos, todo, final, flushes, storeLog, store, handed, merged,
                   srcVars, trVars, lines, libVars>>

\* subgraph.AddNode(node) for the next node of sg.nodes
MergeAddNode ==
    /\ Running
    /\ mpc = "nodes"
    /\ pos <= Len(sg.nodes)
    /\ \E arrMatch \in ToArray(sg.nodes[pos].Labels),
          arrKey \in ToArray(sg.nodes[pos].Labels) :
           LET res == AddNode(subgraph, sg.nodes[pos], arrMatch, arrKey)
           IN  IF res.panic
               THEN /\ fatal' = res.err
                    /\ UNCHANGED <<subgraph, pos>>
               ELSE /\ subgraph' = res.s
                    /\ pos' = pos + 1
                    /\ UNCHANGED fatal
    /\ UNCHANGED <<mpc, sg, todo, final, flushes, storeLog, store, handed, merged,
                   srcVars, trVars, lines, libVars>>

\* The loop over sg.nodes is over; the loop over sg.rels begins.
MergeNodesDone ==
    /\ Running
    /\ mpc = "nodes"
    /\ pos > Len(sg.nodes)
    /\ mpc' = "rels"
    /\ pos' = 1
    /\ UNCHANGED <<sg, todo, final, flushes, storeLog, store, handed, merged, srcVars,
                   trVars, fatal, lines, subgraph, libVars>>

\* subgraph.AddRel(rel) for the next relationship of sg.rels
MergeAddRel ==
    /\ Running
    /\ mpc = "rels"
    /\ pos <= Len(sg.rels)
    /\ \E arrStart \in ToArray(sg.rels[pos].Start.Labels),
          arrEnd \in ToArray(sg.rels[pos].End.Labels) :
           LET res == AddRel(subgraph, sg.rels[pos], arrStart, arrEnd)
           IN  IF res.panic
               THEN /\ fatal' = res.err
                    /\ UNCHANGED <<subgraph, pos>>
               ELSE /\ subgraph' = res.s
                    /\ pos' = pos + 1
                    /\ UNCHANGED fatal
    /\ UNCHANGED <<mpc, sg, todo, final, flushes, storeLog, store, handed, merged,
                   srcVars, trVars, lines, libVars>>

\* The loop over sg.rels is over: the Subgraph is merged.
MergeRelsDone ==
    /\ Running
    /\ mpc = "rels"
    /\ pos > Len(sg.rels)
    /\ mpc' = "check"
    /\ merged' = merged + 1
    /\ UNCHANGED <<sg, pos, todo, final, flushes, storeLog, store, handed, srcVars,
                   trVars, fatal, lines, subgraph, libVars>>

\* A mergeSubgraph call that begins at the loop over subgraph.RelKeys().
StartFlushRelsOnly(isFinal) ==
    /\ final' = isFinal
    /\ flushes' = Append(flushes, [final |-> isFinal,
                                   nodeCount |-> NodeCount(subgraph),
                                   relCount |-> RelCount(subgraph)])
    /\ todo' \in RelKeys(subgraph)
    /\ mpc' = "flushRels"

\* The call mergeSubgraph(ctx, driver, subgraph) begins: the loop over
\* subgraph.NodeKeys().
StartFlush(isFinal) ==
    /\ final' = isFinal
    /\ flushes' = Append(flushes, [final |-> isFinal,
                                   nodeCount |-> NodeCount(subgraph),
                                   relCount |-> RelCount(subgraph)])
    /\ todo' \in NodeKeys(subgraph)
    /\ mpc' = "flushNodes"

\* A threshold test that flushes at batchSize nodes already.
ReachedBatchSize(s) == NodeCount(s) >= batchSize

\* subgraph.NodeCount() > batchSize
OverBatchSize(s) == NodeCount(s) > batchSize

\* if subgraph.NodeCount() > batchSize { mergeSubgraph(..) .. }
MergeCheck ==
    /\ Running
    /\ mpc = "check"
    /\ IF OverBatchSize(subgraph)
       THEN StartFlush(FALSE)
       ELSE /\ mpc' = "recv"
            /\ UNCHANGED <<todo, final, flushes>>
    /\ UNCHANGED <<sg, pos, storeLog, store, handed, merged, srcVars, trVars, fatal,
                   lines, subgraph, libVars>>

\* MergeEntities returning at the end of the range without the final
\* mergeSubgraph call.
MergeRangeEndNoFlush ==
    /\ Running
    /\ mpc = "recv"
    /\ sgClosed
    /\ mpc' = "done"
    /\ UNCHANGED <<sg, pos, todo, final, flushes, storeLog, store, handed, merged,
                   srcVars, trVars, fatal, lines, subgraph, libVars>>

\* The range over subgraphChannel ends: the channel is closed; the final
\* mergeSubgraph call begins.
MergeRangeEnd ==
    /\ Running
    /\ mpc = "recv"
    /\ sgClosed
    /\ StartFlush(TRUE)
    /\ UNCHANGED <<sg, pos, storeLog, store, handed, merged, srcVars, trVars, fatal,
                   lines, subgraph, libVars>>

(* mergeSubgraph *)

\* mergeNodes up to the query: the panic of an unknown match label, or the
\* bulk operation MERGE (n:labels {match keys}) SET n += node.
mergeNodes(matchLabel, nodeLabels, p, nodes) ==
    LET got == GetKeys(p, matchLabel)
    IN  IF ~got.exists
        THEN [panic |-> TRUE, err |-> "UnknownMatchLabel"]
        ELSE [panic |-> FALSE, err |-> "nil",
              op |-> [kind |-> "nodes", matchLabel |-> matchLabel,
                      labels |-> nodeLabels, matchKeys |-> got.keys,
                      nodes |-> nodes]]

\* mergeRels up to the query: the panic of an unknown start or end label,
\* or the bulk operation MATCH (start) MATCH (end) CREATE (start)-[r]->(end).
mergeRels(rtype, startLabel, endLabel, p, rels) ==
    LET gotStart == GetKeys(p, startLabel)
        gotEnd == GetKeys(p, endLabel)
    IN  IF ~gotStart.exists \/ ~gotEnd.exists
        THEN [panic |-> TRUE, err |-> "UnknownMatchLabel"]
        ELSE [panic |-> FALSE, err |-> "nil",
              op |-> [kind |-> "rels", rtype |-> rtype,
                      startLabel |-> startLabel, endLabel |-> endLabel,
                      startKeys |-> gotStart.keys, endKeys |-> gotEnd.keys,
                      rels |-> rels]]

(* The store: what it does with the two queries *)

\* SET x += m: the keys of m are written over those of p, the others stay.
SetPlus(p, m) ==
    [key \in DOMAIN p \cup DOMAIN m |->
        IF key \in DOMAIN m THEN m[key] ELSE p[key]]

\* The stored nodes a pattern (n:labels {key: row.key, ...}) matches: those
\* carrying every label of the pattern and the row's value for every key.
Matching(st, labels, matchKeys, row) ==
    { x \in 1..Len(st.nodes) :
        /\ labels \subseteq st.nodes[x].labels
        /\ \A q \in 1..Len(matchKeys) :
              /\ matchKeys[q] \in DOMAIN row
              /\ matchKeys[q] \in DOMAIN st.nodes[x].props
              /\ st.nodes[x].props[matchKeys[q]] = row[matchKeys[q]] }

\* CREATE (n:labels) SET n = node in place of the MERGE: a node per row.
CreateNodeRow(st, labels, matchKeys, row) ==
    [st EXCEPT !.nodes = Append(@, [labels |-> labels, props |-> row])]

\* One row of UNWIND $nodes: MERGE (n:labels {match keys}) SET n += node.
MergeNodeRow(st, labels, matchKeys, row) ==
    LET found == Matching(st, labels, matchKeys, row)
    IN  IF found = {}
        THEN [st EXCEPT !.nodes =
                Append(@, [labels |-> labels,
                           props |-> SetPlus([q \in Range(matchKeys) |->
                                                  row[q]], row)])]
        ELSE [st EXCEPT !.nodes =
                [x \in 1..Len(st.nodes) |->
                    IF x \in found
                    THEN [st.nodes[x] EXCEPT !.props = SetPlus(@, row)]
                    ELSE st.nodes[x]]]

\* The node query of mergeNodes, row after row.
RECURSIVE ExecMergeNodes(_, _, _)
ExecMergeNodes(st, op, q) ==
    IF q > Len(op.nodes)
    THEN st
    ELSE ExecMergeNodes(MergeNodeRow(st, Range(op.labels), op.matchKeys,
                                     op.nodes[q].Props),
                        op, q + 1)

\* n more edges e in the bag of edges.
AddEdges(edges, e, n) ==
    IF n = 0 THEN edges
    ELSE IF e \in DOMAIN edges
    THEN [edges EXCEPT ![e] = @ + n]
    ELSE edges @@ (e :> n)

RECURSIVE CreateAll(_, _, _, _)
CreateAll(edges, pairs, rtype, props) ==
    IF pairs = {}
    THEN edges
    ELSE LET pr == CHOOSE x \in pairs : TRUE
         IN  CreateAll(AddEdges(edges, [type |-> rtype, start |-> pr[1],
                                        end |-> pr[2], props |-> props], 1),
                       pairs \ {pr}, rtype, props)

\* MERGE (start)-[r]->(end) in place of the CREATE: an edge only where there
\* is none of the type between the two nodes.
MergeRelRow(st, op, r) ==
    LET starts == Matching(st, {op.startLabel}, op.startKeys, r.Start.Props)
        ends == Matching(st, {op.endLabel}, op.endKeys, r.End.Props)
        fresh == { pr \in starts \X ends :
                     ~\E e \in DOMAIN st.edges :
                         /\ e.type = op.rtype
                         /\ e.start = pr[1]
                         /\ e.end = pr[2] }
    IN  [st EXCEPT !.edges = CreateAll(@, fresh, op.rtype, r.Props)]

\* One row of UNWIND $rels: MATCH (start) MATCH (end)
\* CREATE (start)-[r:type]->(end) SET r += rel.props.
CreateRelRow(st, op, r) ==
    LET starts == Matching(st, {op.startLabel}, op.startKeys, r.Start.Props)
        ends == Matching(st, {op.endLabel}, op.endKeys, r.End.Props)
    IN  [st EXCEPT !.edges = CreateAll(@, starts \X ends, op.rtype, r.Props)]

\* The relationship query of mergeRels, row after row.
RECURSIVE ExecCreateRels(_, _, _)
ExecCreateRels(st, op, q) ==
    IF q > Len(op.rels)
    THEN st
    ELSE ExecCreateRels(CreateRelRow(st, op, op.rels[q]), op, q + 1)

\* One pass of the loop over the node keys: the key is deserialized and
\* mergeNodes runs its query, which the store executes or fails.
FlushNodeBucket ==
    /\ Running
    /\ mpc = "flushNodes"
    /\ todo # <<>>
    /\ LET nodeKey == Head(todo)
           d == DeserializeNodeKey(nodeKey)
           m == mergeNodes(d.matchLabel, d.labels, subgraph.matchProvider,
                           GetNodes(subgraph, nodeKey))
       IN  IF d.panic
           THEN /\ fatal' = "invalid node sort key"
                /\ UNCHANGED <<todo, storeLog, store>>
           ELSE IF m.panic
           THEN /\ fatal' = m.err
                /\ UNCHANGED <<todo, storeLog, store>>
           ELSE \E ok \in BOOLEAN :
                    IF ok
                    THEN /\ storeLog' = Append(storeLog,
                                               m.op @@ [flush |-> Len(flushes)])
                         /\ store' = ExecMergeNodes(store, m.op, 1)
                         /\ todo' = Tail(todo)
                         /\ UNCHANGED fatal
                    ELSE /\ fatal' = "store"
                         /\ UNCHANGED <<todo, storeLog, store>>
    /\ UNCHANGED <<mpc, sg, pos, final, flushes, handed, merged, srcVars,
                   trVars, lines, subgraph, libVars>>

\* The loop over the node keys is over; the loop over subgraph.RelKeys()
\* begins.
FlushNodesDone ==
    /\ Running
    /\ mpc = "flushNodes"
    /\ todo = <<>>
    /\ todo' \in RelKeys(subgraph)
    /\ mpc' = "flushRels"
    /\ UNCHANGED <<sg, pos, final, flushes, storeLog, store, handed, merged, srcVars,
                   trVars, fatal, lines, subgraph, libVars>>

\* One pass of the loop over the relationship keys.
FlushRelBucket ==
    /\ Running
    /\ mpc = "flushRels"
    /\ todo # <<>>
    /\ LET relKey == Head(todo)
           d == DeserializeRelKey(relKey)
           m == mergeRels(d.rtype, d.startLabel, d.endLabel,
                          subgraph.matchProvider, GetRels(subgraph, relKey))
       IN  IF d.panic
           THEN /\ fatal' = "invalid relationship sort key"
                /\ UNCHANGED <<todo, storeLog, store>>
           ELSE IF m.panic
           THEN /\ fatal' = m.err
                /\ UNCHANGED <<todo, storeLog, store>>
           ELSE \E ok \in BOOLEAN :
                    IF ok
                    THEN /\ storeLog' = Append(storeLog,
                                               m.op @@ [flush |-> Len(flushes)])
                         /\ store' = ExecCreateRels(store, m.op, 1)
                         /\ todo' = Tail(todo)
                         /\ UNCHANGED fatal
                    ELSE /\ fatal' = "store"
                         /\ UNCHANGED <<todo, storeLog, store>>
    /\ UNCHANGED <<mpc, sg, pos, final, flushes, handed, merged, srcVars,
                   trVars, lines, subgraph, libVars>>

\* A return from mergeSubgraph after which MergeEntities goes on with the
\* structured subgraph it flushed.
FlushReturnKeep ==
    /\ Running
    /\ mpc = "flushRels"
    /\ todo = <<>>
    /\ mpc' = IF final THEN "done" ELSE "recv"
    /\ UNCHANGED <<sg, pos, todo, final, flushes, storeLog, store, handed,
                   merged, srcVars, trVars, fatal, lines, subgraph, libVars>>

\* mergeSubgraph returns: after the final call MergeEntities returns, else
\* subgraph = NewStructuredSubgraph(matchProvider) and the range goes on.
FlushReturn ==
    /\ Running
    /\ mpc = "flushRels"
    /\ todo = <<>>
    /\ IF final
       THEN /\ mpc' = "done"
            /\ UNCHANGED subgraph
       ELSE /\ subgraph' = NewStructuredSubgraph(matchProvider)
            /\ mpc' = "recv"
    /\ UNCHANGED <<sg, pos, todo, final, flushes, storeLog, store, handed, merged,
                   srcVars, trVars, fatal, lines, libVars>>

Next ==
    \/ SourceLoop \/ HandOffEvent \/ SourceClose \/ SourceJoin
    \/ TransformRangeEnd \/ TransformClose \/ TransformJoin \/ HandOffSubgraph
    \/ MergeConnect \/ MergeAddNode \/ MergeNodesDone \/ MergeAddRel
    \/ MergeRelsDone \/ MergeCheck \/ MergeRangeEnd
    \/ FlushNodeBucket \/ FlushNodesDone \/ FlushRelBucket \/ FlushReturn

Spec == Init /\ [][Next]_vars

MaxFairLines == 2

\* The lines of the runs whose end is checked: blank, not decodable, or the
\* encoding of an event without tags.
FairLines ==
    {l \in InputLines : l.kind = "event" => l.ev.Tags = <<>>}

InitFair ==
    /\ matchProvider = NewMatchKeys
    /\ node = NoNode
    /\ ret = NoRet
    /\ AccIdle
    /\ \E n \in 1..MaxFairLines : lines \in [1..n -> FairLines]
    /\ i = 0
    /\ spc = "loop"
    /\ event = ZeroEvent
    /\ logged = <<>>
    /\ eventsClosed = FALSE
    /\ tpc = "recv"
    /\ tsub = NewSubgraph
    /\ sgClosed = FALSE
    /\ mpc = "connect"
    /\ sg = NewSubgraph
    /\ pos = 1
    /\ todo = <<>>
    /\ final = FALSE
    /\ flushes = <<>>
    /\ storeLog = <<>>
    /\ store = EmptyStore
    /\ fatal = "none"
    /\ forwarded = <<>>
    /\ handed = <<>>
    /\ merged = 0

\* The Go scheduler lets a goroutine that can run do so: while some step of
\* the three stages is possible, one is taken.
FairSpec == InitFair /\ [][Next]_vars /\ WF_vars(Next)

(* MergeEntities called again and again over one store *)

MaxStoreSubgraphs == 2
MaxRuns == 2

\* The events of the runs: one event, and the same event with another
\* content.
StoreEvents ==
    {[ID |-> "ev1", PubKey |-> "pk1", CreatedAt |-> 1, Kind |-> 1,
      Content |-> "c", Tags |-> <<>>],
     [ID |-> "ev1", PubKey |-> "pk1", CreatedAt |-> 1, Kind |-> 1,
      Content |-> "d", Tags |-> <<>>]}

\* What the store holds before the first run: nothing, or an Event node
\* with a property no event of the runs carries.
StoreSeeds ==
    {EmptyStore,
     [nodes |-> <<[labels |-> {Event},
                   props |-> [id |-> "ev1", content |-> "b", seen |-> 1]]>>,
      edges |-> <<>>]}

InitStore ==
    /\ matchProvider = NewMatchKeys
    /\ node = NoNode
    /\ ret = NoRet
    /\ AccIdle
    /\ lines = <<>>
    /\ i = 0
    /\ spc = "idle"
    /\ event = ZeroEvent
    /\ logged = <<>>
    /\ eventsClosed = FALSE
    /\ tpc = "idle"
    /\ tsub = NewSubgraph
    /\ sgClosed = FALSE
    /\ mpc = "connect"
    /\ sg = NewSubgraph
    /\ pos = 1
    /\ todo = <<>>
    /\ final = FALSE
    /\ flushes = <<>>
    /\ storeLog = <<>>
    /\ store \in StoreSeeds
    /\ fatal = "none"
    /\ forwarded = <<>>
    /\ handed = <<>>
    /\ merged = 0

\* subgraphChannel <- subgraph of ParseEvents met by the range of
\* MergeEntities, the transform reduced to the Subgraph it sends.
StoreHandOff ==
    /\ Running
    /\ mpc = "recv"
    /\ ~sgClosed
    /\ Len(handed) < MaxStoreSubgraphs
    /\ \E ev \in StoreEvents :
           /\ ~BuildSubgraph(ev).panic
           /\ sg' = BuildSubgraph(ev).sub
           /\ handed' = Append(handed, BuildSubgraph(ev).sub)
    /\ pos' = 1
    /\ mpc' = "nodes"
    /\ UNCHANGED <<tpc, tsub, sgClosed, todo, final, flushes, storeLog, store,
                   merged, srcVars, fatal, lines, subgraph, libVars>>

\* close(subgraphChannel) of ParseEvents.
StoreClose ==
    /\ Running
    /\ mpc = "recv"
    /\ ~sgClosed
    /\ sgClosed' = TRUE
    /\ UNCHANGED <<tpc, tsub, mrgVars, srcVars, fatal, lines, subgraph,
                   libVars>>

FinalFlushes == SelectSeq(flushes, LAMBDA f : f.final)

\* The program is run once more: MergeEntities starts over a new channel
\* and the store of the runs before.
StoreRerun ==
    /\ Running
    /\ mpc = "done"
    /\ Len(FinalFlushes) < MaxRuns
    /\ mpc' = "connect"
    /\ sgClosed' = FALSE
    /\ final' = FALSE
    /\ UNCHANGED <<tpc, tsub, sg, pos, todo, flushes, storeLog, store, handed,
                   merged, srcVars, fatal, lines, subgraph, libVars>>

NextStore ==
    \/ StoreHandOff \/ StoreClose \/ StoreRerun
    \/ MergeConnect \/ MergeAddNode \/ MergeNodesDone \/ MergeAddRel
    \/ MergeRelsDone \/ MergeCheck \/ MergeRangeEnd
    \/ FlushNodeBucket \/ FlushNodesDone \/ FlushRelBucket \/ FlushReturn

SpecStore == InitStore /\ [][NextStore]_vars

(* The loop body of ParseEvents on one event *)

MaxTags == 2

\* The tags of the events: of no, one, two and three elements.
TagUniverse ==
    {<<>>, <<"p">>, <<"e", "ev0">>, <<"p", "pk2">>, <<"e", "ev0", "r">>}

ParseInputs ==
    {[ID |-> id, PubKey |-> pk, CreatedAt |-> 1, Kind |-> 1, Content |-> "c",
      Tags |-> tags] :
        id \in {"ev1", ""}, pk \in {"pk1", "pk2"},
        tags \in UNION {[1..n -> TagUniverse] : n \in 0..MaxTags}}

\* ImportEvents is about to send an event and ParseEvents to receive it.
InitParse ==
    /\ matchProvider = NewMatchKeys
    /\ node = NoNode
    /\ ret = NoRet
    /\ AccIdle
    /\ lines = <<>>
    /\ i = 0
    /\ spc = "send"
    /\ event \in ParseInputs
    /\ logged = <<>>
    /\ eventsClosed = FALSE
    /\ tpc = "recv"
    /\ tsub = NewSubgraph
    /\ sgClosed = FALSE
    /\ mpc = "idle"
    /\ sg = NewSubgraph
    /\ pos = 1
    /\ todo = <<>>
    /\ final = FALSE
    /\ flushes = <<>>
    /\ storeLog = <<>>
    /\ store = EmptyStore
    /\ fatal = "none"
    /\ forwarded = <<>>
    /\ handed = <<>>
    /\ merged = 0

NextParse == HandOffEvent

SpecParse == InitParse /\ [][NextParse]_vars

-----------------------------------------------------------------------------
(* Properties of MatchProps and of the sort keys *)

\* The labels of n that have a registry entry in p.
Registered(n, p) == n.Labels \cap DOMAIN p

\* The lexicographically smallest label of a non-empty set of labels.
Smallest(labels) ==
    CHOOSE l \in labels : \A m \in labels : m = l \/ StrLess(l, m)

\* seq lists the elements of set once each, in increasing order.
IsSortedListOf(seq, set) ==
    /\ Len(seq) = Cardinality(set)
    /\ Range(seq) = set
    /\ \A k \in 1..(Len(seq) - 1) : StrLess(seq[k], seq[k + 1])

\* C7: for a node with at least one registered label MatchProps returns as
\* match label the lexicographically smallest registered label of the node,
\* whatever the order in which the label set yields its labels.
C7_MatchLabelSmallestRegistered ==
    (ret.op = "MatchProps" /\ Registered(ret.n, matchProvider) # {})
        => ret.res.label = Smallest(Registered(ret.n, matchProvider))

\* C7 witness: two registered labels, yielded larger first; the smaller is
\* the match label.
C7_Witness ==
    /\ ret.op = "MatchProps"
    /\ matchProvider = NewMatchKeys
    /\ ret.arr = <<User, Event>>
    /\ ret.res.label = Event

\* C7 witness of the spec's example: {"Event","Tag"}, only Tag registered.
C7_ExampleReached ==
    /\ ret.op = "MatchProps"
    /\ matchProvider = TagOnlyKeys
    /\ ret.arr = <<Tag, Event>>
    /\ ret.res.label = Tag

\* C8: MatchProps fails with MissingMatchProperty exactly when the smallest
\* registered label of the node has a key the node's properties lack, fails
\* with NoRecognizedLabel exactly when no label of the node is registered,
\* and otherwise returns the property values of that label's keys.
C8_MatchPropsOutcome ==
    ret.op = "MatchProps" =>
        LET reg == Registered(ret.n, matchProvider)
            keys == Range(matchProvider[Smallest(reg)])
        IN  /\ (ret.res.err = "NoRecognizedLabel") <=> (reg = {})
            /\ (ret.res.err = "MissingMatchProperty") <=>
                    (reg # {} /\ ~(keys \subseteq DOMAIN ret.n.Props))
            /\ (ret.res.err = "nil") <=>
                    (reg # {} /\ keys \subseteq DOMAIN ret.n.Props)
            /\ (ret.res.err = "nil") =>
                    ret.res.props = [key \in keys |-> ret.n.Props[key]]
            /\ ret.res.err \in {"nil", "NoRecognizedLabel", "MissingMatchProperty"}

\* C8 witness: the smallest registered label (Event) lacks its key although
\* another registered label (User) has its own; MatchProps fails.
C8_Witness ==
    /\ ret.op = "MatchProps"
    /\ matchProvider = NewMatchKeys
    /\ ret.n.Labels = {Event, User}
    /\ DOMAIN ret.n.Props = {"pubkey"}
    /\ ret.res.err = "MissingMatchProperty"
    /\ ret.res.label = Event

\* The key round trip returned the match label and the sorted label list.
RoundTripOK ==
    /\ ~ret.back.panic
    /\ ret.back.matchLabel = ret.matchLabel
    /\ IsSortedListOf(ret.back.labels, ret.n.Labels)

\* No label of the set holds one of the key's delimiters.
DelimiterFree(labels) ==
    \A l \in labels : \A k \in 1..Len(l) : l[k] \notin {",", ":"}

\* C10 as stated: for every node MatchProps accepts, with its match label
\* and its label set, DeserializeNodeKey(createNodeSortKey(..)) returns the
\* match label and the sorted label list unchanged.
C10_RoundTripAnyLabels ==
    (ret.op = "NodeKey" /\ ret.res.err = "nil" /\ ret.matchLabel = ret.res.label)
        => RoundTripOK

\* C10 amended: the round trip returns the match label and the sorted label
\* list unchanged when no label holds "," or ":".
C10_RoundTripDelimiterFree ==
    (ret.op = "NodeKey" /\ DelimiterFree(ret.n.Labels)) => RoundTripOK

\* C10 witness: the key "Tag:Event,Tag" is read back as Tag, [Event, Tag].
C10_Witness ==
    /\ ret.op = "NodeKey"
    /\ ret.arr = <<Tag, Event>>
    /\ ret.matchLabel = Tag
    /\ ret.back = [panic |-> FALSE, matchLabel |-> Tag, labels |-> <<Event, Tag>>]

-----------------------------------------------------------------------------
(* Properties of the structured subgraph and of the constructors *)

\* How often x occurs in the sequence seq.
CountIn(seq, x) == Cardinality({k \in 1..Len(seq) : seq[k] = x})

\* How often x occurs in the buckets over the keys.
RECURSIVE CountInBuckets(_, _, _)
CountInBuckets(buckets, keys, x) ==
    IF keys = {} THEN 0
    ELSE LET k == CHOOSE y \in keys : TRUE
         IN  CountIn(buckets[k], x) + CountInBuckets(buckets, keys \ {k}, x)

\* All that the buckets hold.
BucketItems(buckets) == UNION {Range(buckets[k]) : k \in DOMAIN buckets}

\* C1: NodeCount() is the number of AddNode calls that did not fail,
\* RelCount() the number of AddRel calls that did not fail, and the buckets
\* together hold each added entity as often as it was added, and nothing
\* else.
C1_GroupingConservation ==
    /\ NodeCount(subgraph) = Len(okNodes)
    /\ RelCount(subgraph) = Len(okRels)
    /\ \A x \in BucketItems(subgraph.nodes) \cup Range(okNodes) :
           CountInBuckets(subgraph.nodes, DOMAIN subgraph.nodes, x)
               = CountIn(okNodes, x)
    /\ \A x \in BucketItems(subgraph.rels) \cup Range(okRels) :
           CountInBuckets(subgraph.rels, DOMAIN subgraph.rels, x)
               = CountIn(okRels, x)

\* C1 witness: the same node added twice to one bucket, and a failed call
\* after them.
C1_Witness ==
    /\ okNodes = <<NewUserNode("pk1"), NewUserNode("pk1")>>
    /\ Len(okRels) = 1
    /\ NodeCount(subgraph) = 2
    /\ RelCount(subgraph) = 1
    /\ ret.op = "AddRel"
    /\ ret.panic

\* The constructor call recorded in r was made with a start or an end node
\* that lacks the label the constructor declares.
EndpointMismatch(r) ==
    \/ r.decl.startLabel \notin r.start.Labels
    \/ r.decl.endLabel \notin r.end.Labels

\* C9: a schema constructor called with a start node that lacks the
\* declared start label, or an end node that lacks the declared end label,
\* fails with EndpointLabelMismatch, produces no Relationship and leaves
\* the nodes and the structured subgraph as they were.
C9_EndpointValidation ==
    [][(ret'.op = "NewRel" /\ EndpointMismatch(ret'))
          => /\ ret'.panic
             /\ ret'.err = "EndpointLabelMismatch"
             /\ ret'.rel = NoRel
             /\ subgraph' = subgraph
             /\ okNodes' = okNodes /\ okRels' = okRels]_vars

\* C9 witness: NewSignedRel with a start node without the label User failed.
C9_Witness ==
    /\ ret.op = "NewRel"
    /\ ret.decl.rtype = SIGNED
    /\ User \notin ret.start.Labels
    /\ Event \in ret.end.Labels
    /\ ret.panic
    /\ ret.err = "EndpointLabelMismatch"
    /\ NodeCount(subgraph) > 0

-----------------------------------------------------------------------------
(* Properties of the pipeline *)

\* The concatenation of the sequences seqs[j][field].
RECURSIVE Flat(_, _)
Flat(seqs, field) ==
    IF seqs = <<>> THEN <<>>
    ELSE Head(seqs)[field] \o Flat(Tail(seqs), field)

\* The operations of the store log of the given kind.
OpsOf(kind) == SelectSeq(storeLog, LAMBDA op : op.kind = kind)

\* The nodes and relationships handed to MergeEntities, and those of the
\* bulk operations the store has executed.
HandedNodes == Flat(handed, "nodes")
HandedRels == Flat(handed, "rels")
WrittenNodes == Flat(OpsOf("nodes"), "nodes")
WrittenRels == Flat(OpsOf("rels"), "rels")

\* C2 as stated: a flush is performed before the (batchSize+2)-th node is
\* added: the structured subgraph never holds more than batchSize + 1 nodes.
C2_FlushBeforeNodeTPlus2 == NodeCount(subgraph) <= batchSize + 1

\* C2 amended: the threshold is tested after each Subgraph has been merged
\* completely; a Subgraph that brings NodeCount() above batchSize is
\* followed by exactly one flush before the first node of the next Subgraph
\* is added: a Subgraph is received, and its first node added, with at most
\* batchSize nodes accumulated, and no flush inside the range loop is of
\* batchSize nodes or fewer.
C2_FlushAfterSubgraphOverThreshold ==
    /\ mpc = "recv" => NodeCount(subgraph) <= batchSize
    /\ mpc = "nodes" => NodeCount(subgraph) - (pos - 1) <= batchSize
    /\ \A f \in 1..Len(flushes) :
           ~flushes[f].final => flushes[f].nodeCount > batchSize

\* C2 witness: the second Subgraph brought the count from batchSize to
\* batchSize + 2, one flush followed, and the range waits for the next
\* Subgraph with an empty structured subgraph.
C2_Witness ==
    /\ Len(flushes) = 1
    /\ ~flushes[1].final
    /\ flushes[1].nodeCount = batchSize + 2
    /\ merged = 2
    /\ mpc = "recv"
    /\ NodeCount(subgraph) = 0

\* C3: a line that fails to decode is not forwarded to ParseEvents, so no
\* Subgraph is built of it and nothing of it is written.
C3_MalformedNotForwarded ==
    /\ \A j \in 1..Len(forwarded) : lines[forwarded[j]].kind # "malformed"
    /\ \A j \in 1..Len(handed) : handed[j] # BuildSubgraph(ZeroEvent).sub
    /\ \A j \in 1..Len(WrittenNodes) :
           WrittenNodes[j] # NewUserNode(ZeroEvent.PubKey)

\* C4: when ImportEvents has returned, every node and every relationship
\* of every Subgraph handed to MergeEntities is in a bulk operation the
\* store has executed, as often as it was handed over.
C4_AllWrittenAtCompletion ==
    spc = "done" =>
        /\ \A x \in Range(HandedNodes) :
               CountIn(WrittenNodes, x) >= CountIn(HandedNodes, x)
        /\ \A x \in Range(HandedRels) :
               CountIn(WrittenRels, x) >= CountIn(HandedRels, x)

\* C4 witness: a run completed with one flush at the threshold and a final
\* flush of a remainder of batchSize nodes or fewer.
C4_Witness ==
    /\ spc = "done"
    /\ Len(flushes) = 2
    /\ ~flushes[1].final
    /\ flushes[2].final
    /\ flushes[2].nodeCount \in 1..batchSize
    /\ Len(WrittenNodes) = Len(HandedNodes)
    /\ Len(handed) = 2

\* The final mergeSubgraph call has begun.
InFinalFlush == final /\ mpc \in {"flushNodes", "flushRels", "done"}

\* C5: while the final flush runs, ImportEvents holds no record (it has
\* closed events), ParseEvents holds none (it has closed subgraphChannel),
\* and every forwarded record has been handed over as a Subgraph and merged
\* completely.
C5_FinalFlushAfterAllMerged ==
    InFinalFlush =>
        /\ spc \in {"wait", "done"}
        /\ eventsClosed
        /\ tpc \in {"wait", "done"}
        /\ sgClosed
        /\ Len(handed) = Len(forwarded)
        /\ merged = Len(forwarded)
        /\ pos > Len(sg.rels)

\* C5 witness: the final flush runs after two records were forwarded.
C5_Witness ==
    /\ InFinalFlush
    /\ mpc = "flushRels"
    /\ Len(forwarded) = 2
    /\ merged = 2

\* C6: no record of a line after the first LineCap lines is forwarded, and
\* at most LineCap records are.
C6_CappedAtLineCap ==
    /\ \A j \in 1..Len(forwarded) : forwarded[j] <= LineCap
    /\ Len(forwarded) <= LineCap

(* C11, C12: the bulk operations executed twice *)

\* The bulk operation the flush is about to hand to the store, if any.
PendingNodeOp ==
    LET d == DeserializeNodeKey(Head(todo))
    IN  mergeNodes(d.matchLabel, d.labels, subgraph.matchProvider,
                   GetNodes(subgraph, Head(todo)))

PendingRelOp ==
    LET d == DeserializeRelKey(Head(todo))
    IN  mergeRels(d.rtype, d.startLabel, d.endLabel, subgraph.matchProvider,
                  GetRels(subgraph, Head(todo)))

NodeOpPending ==
    /\ Running
    /\ mpc = "flushNodes"
    /\ todo # <<>>
    /\ ~DeserializeNodeKey(Head(todo)).panic
    /\ ~PendingNodeOp.panic

RelOpPending ==
    /\ Running
    /\ mpc = "flushRels"
    /\ todo # <<>>
    /\ ~DeserializeRelKey(Head(todo)).panic
    /\ ~PendingRelOp.panic

\* The rows of a node operation that match the stored node x of st.
Hits(st, op, x) ==
    { q \in 1..Len(op.nodes) :
        x \in Matching(st, Range(op.labels), op.matchKeys, op.nodes[q].Props) }

Max(S) == CHOOSE x \in S : \A y \in S : y <= x

\* The properties of node x after the operation, said without the store's
\* row-by-row execution: for each key the value of the last row that matches
\* the node and carries the key, else the value the node had before.
UnionIncomingWins(before, after, op, x) ==
    LET prev == IF x <= Len(before.nodes) THEN before.nodes[x].props ELSE <<>>
        hit == Hits(after, op, x)
        carrying(key) == { q \in hit : key \in DOMAIN op.nodes[q].Props }
        incoming == UNION { DOMAIN op.nodes[q].Props : q \in hit }
    IN  /\ DOMAIN after.nodes[x].props = DOMAIN prev \cup incoming
        /\ \A key \in DOMAIN after.nodes[x].props :
              after.nodes[x].props[key] =
                  IF carrying(key) # {}
                  THEN op.nodes[Max(carrying(key))].Props[key]
                  ELSE prev[key]

\* C11: a node operation executed a second time leaves the store as the
\* first execution left it: no node is added for a row whose match-key
\* values a stored node of the bucket's labels already has; and after one
\* execution every stored node has its previous properties and the incoming
\* ones, the incoming value on a key both carry.
C11_NodeMergeIdempotent ==
    NodeOpPending =>
        LET op == PendingNodeOp.op
            once == ExecMergeNodes(store, op, 1)
            twice == ExecMergeNodes(once, op, 1)
        IN  /\ twice = once
            /\ Len(once.nodes) >= Len(store.nodes)
            /\ \A q \in 1..Len(op.nodes) :
                  LET was == Matching(store, Range(op.labels), op.matchKeys,
                                      op.nodes[q].Props)
                      is == Matching(once, Range(op.labels), op.matchKeys,
                                     op.nodes[q].Props)
                  IN  IF was = {} THEN Cardinality(is) = 1 ELSE is = was
            /\ \A x \in 1..Len(once.nodes) :
                  UnionIncomingWins(store, once, op, x)

\* C11 witness: the store has executed the node operation of the Event
\* bucket of one run and that of the next run over the same bucket; the
\* Event node the store began with is still the only one of its id, with
\* the property it began with and the content of the runs.
C11_Witness ==
    /\ \E a, b \in 1..Len(storeLog) :
          /\ a < b
          /\ storeLog[a].kind = "nodes"
          /\ storeLog[b].kind = "nodes"
          /\ storeLog[a].flush # storeLog[b].flush
          /\ storeLog[a].matchLabel = Event
          /\ storeLog[a].nodes = storeLog[b].nodes
          /\ storeLog[a].labels = storeLog[b].labels
    /\ Len(store.nodes) >= 1
    /\ store.nodes[1].props = [id |-> "ev1", content |-> "c", seen |-> 1,
                               created_at |-> 1, kind |-> 1]
    /\ \A x \in 2..Len(store.nodes) :
          ~(Event \in store.nodes[x].labels /\ store.nodes[x].props.id = "ev1")

\* The edges of the type from node s to node e.
EdgeCount(st, rtype, s, e) ==
    LET es == { ed \in DOMAIN st.edges :
                  ed.type = rtype /\ ed.start = s /\ ed.end = e }
        RECURSIVE Sum(_)
        Sum(S) == IF S = {} THEN 0
                  ELSE LET ed == CHOOSE x \in S : TRUE
                       IN  st.edges[ed] + Sum(S \ {ed})
    IN  Sum(es)

\* The rows of a relationship operation between the stored nodes s and e.
RowsBetween(st, op, s, e) ==
    { q \in 1..Len(op.rels) :
        /\ s \in Matching(st, {op.startLabel}, op.startKeys,
                          op.rels[q].Start.Props)
        /\ e \in Matching(st, {op.endLabel}, op.endKeys,
                          op.rels[q].End.Props) }

\* C12: a relationship operation executed twice adds, for every
\* relationship of its bucket, two edges of the type from the stored start
\* node to the stored end node for each row between the two: the second
\* execution creates every edge of the first again.
C12_RelCreateTwice ==
    RelOpPending =>
        LET op == PendingRelOp.op
            once == ExecCreateRels(store, op, 1)
            twice == ExecCreateRels(once, op, 1)
        IN  \A q \in 1..Len(op.rels) :
                LET starts == Matching(store, {op.startLabel}, op.startKeys,
                                       op.rels[q].Start.Props)
                    ends == Matching(store, {op.endLabel}, op.endKeys,
                                     op.rels[q].End.Props)
                IN  /\ starts # {}
                    /\ ends # {}
                    /\ \A s \in starts, e \in ends :
                          LET rows == Cardinality(RowsBetween(store, op, s, e))
                              had == EdgeCount(store, op.rtype, s, e)
                          IN  /\ rows >= 1
                              /\ EdgeCount(once, op.rtype, s, e) = had + rows
                              /\ EdgeCount(twice, op.rtype, s, e)
                                     = had + 2 * rows

\* C12 witness: the store has executed the relationship operation of the
\* SIGNED bucket of one run and that of the next run over the same bucket,
\* and holds two SIGNED edges between one pair of nodes.
C12_Witness ==
    /\ \E a, b \in 1..Len(storeLog) :
          /\ a < b
          /\ storeLog[a].kind = "rels"
          /\ storeLog[b].kind = "rels"
          /\ storeLog[a].flush # storeLog[b].flush
          /\ storeLog[a].rtype = SIGNED
          /\ storeLog[a].rels = storeLog[b].rels
          /\ Len(storeLog[a].rels) = 1
    /\ \E s, e \in 1..Len(store.nodes) : EdgeCount(store, SIGNED, s, e) = 2

(* C13: the Subgraph of one record *)

WithLabel(nodes, label) == SelectSeq(nodes, LAMBDA n : n.Labels = {label})

OfType(rels, rtype) == SelectSeq(rels, LAMBDA r : r.Type = rtype)

FullTags(ev) == SelectSeq(ev.Tags, LAMBDA t : Len(t) >= 2)

\* C13: the Subgraph ParseEvents holds for the event it received has one
\* User node with the author as pubkey, one Event node with the record id
\* as id, one SIGNED relationship from the first to the second, and for the
\* tags of two or more elements, in their order, a Tag node with the first
\* element as name and the second as value and a TAGGED relationship from
\* the Event node to it; nothing else.
C13_SubgraphOfRecord ==
    (tpc = "send" /\ spc = "loop") =>
        LET users == WithLabel(tsub.nodes, User)
            events == WithLabel(tsub.nodes, Event)
            tagNodes == WithLabel(tsub.nodes, Tag)
            signed == OfType(tsub.rels, SIGNED)
            tagged == OfType(tsub.rels, TAGGED)
            full == FullTags(event)
        IN  /\ Len(users) = 1
            /\ users[1].Props = [pubkey |-> event.PubKey]
            /\ Len(events) = 1
            /\ events[1].Props.id = event.ID
            /\ Len(tagNodes) = Len(full)
            /\ \A j \in 1..Len(full) :
                  /\ tagNodes[j].Props.name = full[j][1]
                  /\ tagNodes[j].Props.value = full[j][2]
            /\ Len(tsub.nodes) = 2 + Len(full)
            /\ Len(signed) = 1
            /\ signed[1].Start = users[1]
            /\ signed[1].End = events[1]
            /\ Len(tagged) = Len(full)
            /\ \A j \in 1..Len(full) :
                  /\ tagged[j].Start = events[1]
                  /\ tagged[j].End = tagNodes[j]
            /\ Len(tsub.rels) = 1 + Len(full)

\* C13 witness: the event of author pk1 and id ev1 with the tags
\* [["e","ev0"],["p","pk2"]] has given 1 User, 1 Event and 2 Tag nodes,
\* 1 SIGNED and 2 TAGGED relationships.
C13_Witness ==
    /\ tpc = "send"
    /\ spc = "loop"
    /\ event.PubKey = "pk1"
    /\ event.ID = "ev1"
    /\ event.Tags = <<<<"e", "ev0">>, <<"p", "pk2">>>>
    /\ Len(WithLabel(tsub.nodes, User)) = 1
    /\ Len(WithLabel(tsub.nodes, Event)) = 1
    /\ Len(WithLabel(tsub.nodes, Tag)) = 2
    /\ Len(OfType(tsub.rels, SIGNED)) = 1
    /\ Len(OfType(tsub.rels, TAGGED)) = 2

(* C14: termination *)

AllDone == spc = "done" /\ tpc = "done" /\ mpc = "done"

\* The final mergeSubgraph call has returned.
FinalFlushDone ==
    /\ mpc = "done"
    /\ final
    /\ todo = <<>>
    /\ Len(flushes) >= 1
    /\ flushes[Len(flushes)].final

\* The order of the closes and returns: events is closed only when the loop
\* over the lines is over; subgraphChannel only when events is closed and
\* every event sent on it has been turned into a Subgraph the merge has
\* received; ImportEvents returns only when ParseEvents and MergeEntities,
\* with its final flush, have.
CloseOrder ==
    /\ eventsClosed => (spc \in {"wait", "done"} /\ (RangeOver \/ PastCap))
    /\ sgClosed =>
          /\ eventsClosed
          /\ tpc \in {"wait", "done"}
          /\ Len(handed) = Len(forwarded)
    /\ tpc = "done" => FinalFlushDone
    /\ spc = "done" => (tpc = "done" /\ FinalFlushDone)

\* C14: the closes and returns come in that order, and every run of the
\* three stages without a fatal failure ends with all three returned.
C14_Termination == [](CloseOrder) /\ <>(AllDone \/ fatal # "none")

\* C14 witness: all three stages have returned after two records were
\* forwarded and more than one flush.
C14_Witness ==
    /\ AllDone
    /\ fatal = "none"
    /\ Len(forwarded) = 2
    /\ Len(flushes) >= 2

(* C15: backpressure *)

\* The events ImportEvents has decoded and gone on to send.
Decoded == Len(forwarded) + (IF spc = "send" THEN 1 ELSE 0)

InFlush == mpc \in {"flushNodes", "flushRels"}

Unmatched(n, p) ==
    \A arr \in ToArray(n.Labels) : MatchProps(n, arr, p).err # "nil"

\* C16: an AddNode call whose node has no match label or lacks a match
\* property, and an AddRel call whose start or end node has, panic with the
\* invalid node, invalid start node or invalid end node error and leave the
\* buckets, NodeCount and RelCount as they were; the other calls return.
C16_FailedAddChangesNothing ==
    [][ /\ ret'.op = "AddNode" =>
              IF Unmatched(ret'.n, subgraph.matchProvider)
              THEN /\ ret'.panic
                   /\ ret'.err = "invalid node"
                   /\ subgraph' = subgraph
                   /\ NodeCount(subgraph') = NodeCount(subgraph)
                   /\ RelCount(subgraph') = RelCount(subgraph)
              ELSE ~ret'.panic
        /\ ret'.op = "AddRel" =>
              IF Unmatched(ret'.r.Start, subgraph.matchProvider)
                    \/ Unmatched(ret'.r.End, subgraph.matchProvider)
              THEN /\ ret'.panic
                   /\ ret'.err =
                          IF Unmatched(ret'.r.Start, subgraph.matchProvider)
                          THEN "invalid start node" ELSE "invalid end node"
                   /\ subgraph' = subgraph
                   /\ NodeCount(subgraph') = NodeCount(subgraph)
                   /\ RelCount(subgraph') = RelCount(subgraph)
              ELSE ~ret'.panic
      ]_vars

\* C16 witness: AddRel has failed on the end node with nodes and
\* relationships in the buckets.
C16_Witness ==
    /\ ret.op = "AddRel"
    /\ ret.panic
    /\ ret.err = "invalid end node"
    /\ NodeCount(subgraph) >= 1
    /\ RelCount(subgraph) >= 1

(* C17: what a bucket's key says of its content *)

\* The key reads back as the node's match label and label set.
NodeKeyTells(sortKey, n, p) ==
    LET d == DeserializeNodeKey(sortKey)
    IN  /\ ~d.panic
        /\ \A arr \in ToArray(n.Labels) : MatchProps(n, arr, p).label = d.matchLabel
        /\ IsSortedListOf(d.labels, n.Labels)

\* The key reads back as the relationship's type and its end nodes' match
\* labels.
RelKeyTells(sortKey, r, p) ==
    LET d == DeserializeRelKey(sortKey)
    IN  /\ ~d.panic
        /\ d.rtype = r.Type
        /\ \A arr \in ToArray(r.Start.Labels) :
              MatchProps(r.Start, arr, p).label = d.startLabel
        /\ \A arr \in ToArray(r.End.Labels) :
              MatchProps(r.End, arr, p).label = d.endLabel

\* The node's key is the same whatever arrays ToArray returns.
OneNodeKey(sortKey, n, p) ==
    \A arrMatch \in ToArray(n.Labels), arrKey \in ToArray(n.Labels) :
        createNodeSortKey(MatchProps(n, arrMatch, p).label, arrKey) = sortKey

\* C17 as stated: every node of a bucket has the match label and the label
\* set its key reads back as, every relationship the type and match labels.
C17_BucketsUniform ==
    /\ \A sortKey \in DOMAIN subgraph.nodes :
          \A j \in 1..Len(subgraph.nodes[sortKey]) :
              /\ NodeKeyTells(sortKey, subgraph.nodes[sortKey][j],
                              subgraph.matchProvider)
              /\ OneNodeKey(sortKey, subgraph.nodes[sortKey][j],
                            subgraph.matchProvider)
    /\ \A sortKey \in DOMAIN subgraph.rels :
          \A j \in 1..Len(subgraph.rels[sortKey]) :
              RelKeyTells(sortKey, subgraph.rels[sortKey][j],
                          subgraph.matchProvider)

\* C17 amended: the same for the nodes without "," and ":" in their labels
\* and the relationships without "," in their type; and the key of any node
\* does not depend on the order of its labels.
C17_BucketsUniformDelimiterFree ==
    /\ \A sortKey \in DOMAIN subgraph.nodes :
          \A j \in 1..Len(subgraph.nodes[sortKey]) :
              /\ DelimiterFree(subgraph.nodes[sortKey][j].Labels) =>
                    NodeKeyTells(sortKey, subgraph.nodes[sortKey][j],
                                 subgraph.matchProvider)
              /\ OneNodeKey(sortKey, subgraph.nodes[sortKey][j],
                            subgraph.matchProvider)
    /\ \A sortKey \in DOMAIN subgraph.rels :
          \A j \in 1..Len(subgraph.rels[sortKey]) :
              DelimiterFree({subgraph.rels[sortKey][j].Type}) =>
                  RelKeyTells(sortKey, subgraph.rels[sortKey][j],
                              subgraph.matchProvider)

\* C17 witness: an Event that is a Tag too lies in a bucket whose key reads
\* back as Event, [Event, Tag], and a relationship lies in a bucket.
C17_Witness ==
    /\ \E sortKey \in DOMAIN subgraph.nodes :
          /\ DeserializeNodeKey(sortKey).matchLabel = Event
          /\ DeserializeNodeKey(sortKey).labels = <<Event, Tag>>
          /\ Len(subgraph.nodes[sortKey]) >= 1
    /\ RelCount(subgraph) >= 1

(* C18: the labels read from the keys are registered *)

\* C18: mergeNodes and mergeRels never panic on an unknown label: the match
\* label read from every node key of the structured subgraph, and the start
\* and end labels read from every relationship key, have match keys in the
\* provider.
C18_MatchLabelsKnown ==
    /\ fatal # "UnknownMatchLabel"
    /\ \A sortKey \in DOMAIN subgraph.nodes :
          LET d == DeserializeNodeKey(sortKey)
          IN  /\ ~d.panic
              /\ GetKeys(subgraph.matchProvider, d.matchLabel).exists
    /\ \A sortKey \in DOMAIN subgraph.rels :
          LET d == DeserializeRelKey(sortKey)
          IN  /\ ~d.panic
              /\ GetKeys(subgraph.matchProvider, d.startLabel).exists
              /\ GetKeys(subgraph.matchProvider, d.endLabel).exists

\* C18 witness: a flush has run mergeNodes for the Tag bucket and mergeRels
\* for the TAGGED bucket.
C18_Witness ==
    /\ Running
    /\ \E a \in 1..Len(storeLog) :
          storeLog[a].kind = "nodes" /\ storeLog[a].matchLabel = Tag
    /\ \E a \in 1..Len(storeLog) :
          /\ storeLog[a].kind = "rels"
          /\ storeLog[a].rtype = TAGGED
          /\ storeLog[a].endLabel = Tag

(* C19: the bulk operations of one flush *)

\* The positions in storeLog of the operations of flush f.
OpsOfFlush(f) == {a \in 1..Len(storeLog) : storeLog[a].flush = f}

\* The key of the bucket an operation was made from.
KeyOfOp(op) ==
    IF op.kind = "nodes"
    THEN createNodeSortKey(op.matchLabel, op.labels)
    ELSE createRelSortKey(op.rtype, op.startLabel, op.endLabel)

\* mergeSubgraph has gone through both loops.
FlushComplete ==
    /\ Running
    /\ mpc = "flushRels" \/ (mpc = "done" /\ final)
    /\ todo = <<>>
    /\ Len(flushes) >= 1

\* C19: an operation the store executes comes after the operations of the
\* flushes before, after no relationship operation of its own flush if it
\* is a node operation, and is the first made from its bucket in its flush;
\* the operations of the running flush are each made from one bucket of the
\* structured subgraph, with the bucket's content; and when the flush is
\* through there is one for every node bucket and one for every relationship
\* bucket.
C19_OneOpPerBucketNodesFirst ==
    /\ \A a \in 1..(Len(storeLog) - 1) :
          LET last == storeLog[Len(storeLog)]
          IN  /\ storeLog[a].flush <= last.flush
              /\ storeLog[a].flush = last.flush =>
                    /\ ~(storeLog[a].kind = "rels" /\ last.kind = "nodes")
                    /\ KeyOfOp(storeLog[a]) # KeyOfOp(last)
                          \/ storeLog[a].kind # last.kind
    /\ (mpc \in {"flushNodes", "flushRels"} \/ FlushComplete) =>
          \A a \in OpsOfFlush(Len(flushes)) :
              IF storeLog[a].kind = "nodes"
              THEN /\ KeyOfOp(storeLog[a]) \in DOMAIN subgraph.nodes
                   /\ storeLog[a].nodes = GetNodes(subgraph, KeyOfOp(storeLog[a]))
              ELSE /\ KeyOfOp(storeLog[a]) \in DOMAIN subgraph.rels
                   /\ storeLog[a].rels = GetRels(subgraph, KeyOfOp(storeLog[a]))
    /\ mpc = "flushRels" =>
          Cardinality({a \in OpsOfFlush(Len(flushes)) : storeLog[a].kind = "nodes"})
              = Cardinality(DOMAIN subgraph.nodes)
    /\ FlushComplete =>
          Cardinality({a \in OpsOfFlush(Len(flushes)) : storeLog[a].kind = "rels"})
              = Cardinality(DOMAIN subgraph.rels)

\* C19 witness: a flush of three node buckets and two relationship buckets
\* is through.
C19_Witness ==
    /\ FlushComplete
    /\ Cardinality(DOMAIN subgraph.nodes) = 3
    /\ Cardinality(DOMAIN subgraph.rels) = 2
    /\ Cardinality(OpsOfFlush(Len(flushes))) = 5

(* C20: nothing is merged while a flush runs *)

RECURSIVE FlushedNodes(_)
FlushedNodes(k) == IF k = 0 THEN 0 ELSE flushes[k].nodeCount + FlushedNodes(k - 1)

\* Every node MergeEntities was handed has been in a flush.
AllFlushed == Len(flushes) >= 1 /\ FlushedNodes(Len(flushes)) = Len(HandedNodes)

\* C20: while mergeSubgraph runs MergeEntities receives no Subgraph and the
\* structured subgraph stays as it is, until the return replaces it by one
\* without nodes and relationships; a Subgraph is received only at the
\* range, where the structured subgraph is not touched; and the Subgraph
\* received when everything before it has been flushed meets a structured
\* subgraph with NodeCount() = 0 and RelCount() = 0.
C20_NoMergeDuringFlush ==
    [][ /\ InFlush =>
              /\ handed' = handed
              /\ sg' = sg
              /\ merged' = merged
              /\ subgraph' = subgraph
                    \/ /\ mpc = "flushRels"
                       /\ todo = <<>>
                       /\ ~final
                       /\ mpc' = "recv"
              /\ (mpc' = "recv") =>
                    /\ NodeCount(subgraph') = 0
                    /\ RelCount(subgraph') = 0
        /\ handed' # handed => (mpc = "recv" /\ subgraph' = subgraph)
        /\ (handed' # handed /\ AllFlushed) =>
              /\ NodeCount(subgraph) = 0
              /\ RelCount(subgraph) = 0
      ]_vars

\* C20 witness: after a flush, the nodes of the next Subgraph are about to
\* be added to a structured subgraph without nodes and relationships.
C20_Witness ==
    /\ Running
    /\ mpc = "nodes"
    /\ pos = 1
    /\ Len(flushes) >= 1
    /\ Len(handed) >= 2
    /\ FlushedNodes(Len(flushes)) = Len(HandedNodes) - Len(sg.nodes)
    /\ NodeCount(subgraph) = 0
    /\ RelCount(subgraph) = 0

(* C21: the end nodes are in the store when the edges are created *)

\* The edges the store holds.
EdgeTotal(st) ==
    LET RECURSIVE Sum(_)
        Sum(S) == IF S = {} THEN 0
                  ELSE LET ed == CHOOSE x \in S : TRUE
                       IN  st.edges[ed] + Sum(S \ {ed})
    IN  Sum(DOMAIN st.edges)

\* A node operation of the flushes so far has written a node with the label
\* and the node's values for the match keys.
MergedBefore(n, label, matchKeys) ==
    \E a \in 1..Len(storeLog) :
        /\ storeLog[a].kind = "nodes"
        /\ label \in Range(storeLog[a].labels)
        /\ \E q \in 1..Len(storeLog[a].nodes) :
              \A x \in 1..Len(matchKeys) :
                  /\ matchKeys[x] \in DOMAIN n.Props
                  /\ matchKeys[x] \in DOMAIN storeLog[a].nodes[q].Props
                  /\ storeLog[a].nodes[q].Props[matchKeys[x]]
                         = n.Props[matchKeys[x]]

\* C21: when mergeRels is about to run its query, the store holds, for every
\* relationship of the bucket, a node its MATCH (start) binds and a node its
\* MATCH (end) binds, written by a node operation before; and the store
\* holds an edge for every relationship the relationship operations were
\* given.
C21_EndpointsMergedBeforeRels ==
    /\ RelOpPending =>
          LET op == PendingRelOp.op
          IN  \A q \in 1..Len(op.rels) :
                  /\ Matching(store, {op.startLabel}, op.startKeys,
                              op.rels[q].Start.Props) # {}
                  /\ Matching(store, {op.endLabel}, op.endKeys,
                              op.rels[q].End.Props) # {}
                  /\ MergedBefore(op.rels[q].Start, op.startLabel, op.startKeys)
                  /\ MergedBefore(op.rels[q].End, op.endLabel, op.endKeys)
    /\ EdgeTotal(store) = Len(WrittenRels)

\* C21 witness: after an earlier flush, the relationship operations of a
\* flush have run and the store holds the SIGNED and TAGGED edges of two
\* events.
C21_Witness ==
    /\ Running
    /\ mpc = "flushRels"
    /\ todo = <<>>
    /\ Len(flushes) >= 2
    /\ Len(WrittenRels) >= 3
    /\ EdgeTotal(store) = Len(WrittenRels)
    /\ \E ed \in DOMAIN store.edges : ed.type = TAGGED

(* C22: nothing is written twice in one run *)

\* MergeEntities is at its range or in the loops over a received Subgraph.
Merging == mpc \in {"recv", "nodes", "rels", "check"}

\* The stored nodes the start and the end of a relationship are matched to.
EndsOf(r, p) ==
    LET arrS == CHOOSE arr \in ToArray(r.Start.Labels) : TRUE
        arrE == CHOOSE arr \in ToArray(r.End.Labels) : TRUE
        mpS == MatchProps(r.Start, arrS, p)
        mpE == MatchProps(r.End, arrE, p)
    IN  [starts |-> IF mpS.err # "nil" THEN {}
                    ELSE Matching(store, {mpS.label},
                                  GetKeys(p, mpS.label).keys, r.Start.Props),
         ends |-> IF mpE.err # "nil" THEN {}
                  ELSE Matching(store, {mpE.label},
                                GetKeys(p, mpE.label).keys, r.End.Props)]

\* The relationships handed to MergeEntities that go from the stored node
\* ed.start to the stored node ed.end with the type of the edge.
HandedBetween(ed) ==
    {k \in 1..Len(HandedRels) :
        /\ HandedRels[k].Type = ed.type
        /\ ed.start \in EndsOf(HandedRels[k], matchProvider).starts
        /\ ed.end \in EndsOf(HandedRels[k], matchProvider).ends}

\* C22: a node or relationship is in the operations the store executed at
\* most as often as it was handed to MergeEntities, and, while MergeEntities
\* merges, in those and the structured subgraph together at most as often;
\* and in the loop over the relationship keys, the only place where edges
\* are created, the store holds between two nodes at most as many edges of a
\* type as relationships of the type between them were handed over.
C22_NothingWrittenTwice ==
    /\ \A x \in Range(WrittenNodes) :
          CountIn(WrittenNodes, x) <= CountIn(HandedNodes, x)
    /\ \A x \in Range(WrittenRels) :
          CountIn(WrittenRels, x) <= CountIn(HandedRels, x)
    /\ Merging =>
          /\ \A x \in BucketItems(subgraph.nodes) :
                CountIn(WrittenNodes, x)
                    + CountInBuckets(subgraph.nodes, DOMAIN subgraph.nodes, x)
                    <= CountIn(HandedNodes, x)
          /\ \A x \in BucketItems(subgraph.rels) :
                CountIn(WrittenRels, x)
                    + CountInBuckets(subgraph.rels, DOMAIN subgraph.rels, x)
                    <= CountIn(HandedRels, x)
    /\ mpc = "flushRels" =>
          \A ed \in DOMAIN store.edges :
              EdgeCount(store, ed.type, ed.start, ed.end)
                  <= Cardinality(HandedBetween(ed))

\* C22 witness: the run is over after a flush at the threshold and the
\* final flush; every relationship handed over was written once and the
\* store holds one edge for each.
C22_Witness ==
    /\ spc = "done"
    /\ Len(flushes) = 2
    /\ flushes[1].relCount >= 1
    /\ flushes[2].relCount >= 1
    /\ Len(WrittenRels) = Len(HandedRels)
    /\ Len(WrittenNodes) = Len(HandedNodes)
    /\ EdgeTotal(store) = Len(HandedRels)

====
